---- MODULE Spec2Model ----
(***************************************************************************)
(* Model of dashboard_ogd.py: the hourly gap analysis (analyze_data_gaps)  *)
(* and the calendar-week fold of main.                                     *)
(*                                                                         *)
(* A timestamp (column Datum) is an integer: the number of whole hours     *)
(* since 1970-01-01 00:00 civil time.  Every timestamp of the model is     *)
(* therefore hour-aligned, which is the input domain the feed delivers.    *)
(* A calendar date (column Datum_Tag) is the number of days since          *)
(* 1970-01-01.  A float that is a quotient of two integers is kept as the  *)
(* exact fraction [num, den]; NaN is the fraction 0/0.                     *)
(***************************************************************************)
EXTENDS Integers, Sequences, FiniteSets

VARIABLES pc, data, filtered, daily_totals_weekly, weekly_stats_kw, gap_analysis

vars == <<pc, data, filtered, daily_totals_weekly, weekly_stats_kw, gap_analysis>>

----------------------------------------------------------------------------
(* Calendar fields of a timestamp: pandas' .dt accessors (proleptic        *)
(* Gregorian calendar, ISO-8601 weeks).                                    *)

\* days since 1970-01-01 of the civil date y-m-d
DaysFromCivil(y, m, d) ==
    LET y2  == IF m <= 2 THEN y - 1 ELSE y
        era == y2 \div 400
        yoe == y2 - era * 400
        mp  == IF m > 2 THEN m - 3 ELSE m + 9
        doy == (153 * mp + 2) \div 5 + d - 1
        doe == yoe * 365 + yoe \div 4 - yoe \div 100 + doy
    IN  era * 146097 + doe - 719468

\* the timestamp of y-m-d h:00
Timestamp(y, m, d, h) == 24 * DaysFromCivil(y, m, d) + h

\* [year, month, day] of the date z days after 1970-01-01
CivilFromDays(z) ==
    LET z2  == z + 719468
        era == z2 \div 146097
        doe == z2 % 146097
        yoe == (doe - doe \div 1460 + doe \div 36524 - doe \div 146096) \div 365
        doy == doe - (365 * yoe + yoe \div 4 - yoe \div 100)
        mp  == (5 * doy + 2) \div 153
        m   == IF mp < 10 THEN mp + 3 ELSE mp - 9
    IN  [year  |-> IF m <= 2 THEN yoe + era * 400 + 1 ELSE yoe + era * 400,
         month |-> m,
         day   |-> doy - (153 * mp + 2) \div 5 + 1]

\* data['Datum'].dt.date
Datum_Tag(ts) == ts \div 24

\* data['Datum'].dt.year
Jahr(ts) == CivilFromDays(Datum_Tag(ts)).year

\* data['Datum'].dt.month
Monat(ts) == CivilFromDays(Datum_Tag(ts)).month

\* data['Datum'].dt.hour
Stunde(ts) == ts % 24

\* data['Datum'].dt.dayofweek, Monday = 0 (1970-01-01 was a Thursday)
Wochentag(ts) == (Datum_Tag(ts) + 3) % 7

\* data['Datum'].dt.isocalendar().week: the week of the year that holds the
\* Thursday of the timestamp's Monday-to-Sunday week
Kalenderwoche(ts) ==
    LET thursday == Datum_Tag(ts) - Wochentag(ts) + 3
        jan1     == DaysFromCivil(CivilFromDays(thursday).year, 1, 1)
    IN  (thursday - jan1) \div 7 + 1

----------------------------------------------------------------------------
(* Small helpers over finite sets and sequences of integers.               *)

SetMin(S) == CHOOSE x \in S : \A y \in S : x <= y

\* the greatest element; the first conjunct follows from the second and only
\* spares the comparison for elements whose successor is in S as well
SetMax(S) == CHOOSE x \in S : x + 1 \notin S /\ \A y \in S : y <= x

\* the elements of S between lo and hi, ascending
RECURSIVE SortedBetween(_, _, _)
SortedBetween(S, lo, hi) ==
    IF lo > hi THEN <<>>
    ELSE IF lo = hi THEN (IF lo \in S THEN <<lo>> ELSE <<>>)
    ELSE LET mid == (lo + hi) \div 2
         IN  SortedBetween(S, lo, mid) \o SortedBetween(S, mid + 1, hi)

\* Python's sorted() on a set of integers
Sorted(S) == IF S = {} THEN <<>> ELSE SortedBetween(S, SetMin(S), SetMax(S))

SeqToSet(s) == {s[i] : i \in 1..Len(s)}

----------------------------------------------------------------------------
(* analyze_data_gaps                                                       *)

\* a variant that leaves out the end point
DateRangeHalfOpen(start, end) == [i \in 1..(end - start) |-> start + i - 1]

\* pd.date_range(start=start, end=end, freq='h'): start, start+1h, ... <= end
DateRange(start, end) == [i \in 1..(end - start + 1) |-> start + i - 1]

\* timedelta.total_seconds() of a difference of two timestamps
TotalSeconds(delta) == delta * 3600

\* a variant that leaves out the + 1
DurationHExclusive(gap_start, gap_end) == TotalSeconds(gap_end - gap_start) \div 3600

\* (gap_end - gap_start).total_seconds() / 3600 + 1; the quotient is exact
\* for hour-aligned timestamps
DurationH(gap_start, gap_end) == TotalSeconds(gap_end - gap_start) \div 3600 + 1

\* a variant that leaves out the duration test
IsDstAnyDuration(gap_start, duration_h) ==
    Monat(gap_start) = 3 /\ Stunde(gap_start) = 2

\* gap_start.month == 3 and gap_start.hour == 2 and duration_h <= 1
IsDst(gap_start, duration_h) ==
    Monat(gap_start) = 3 /\ Stunde(gap_start) = 2 /\ duration_h <= 1

\* the record appended inside the scan loop, when a run is closed
LoopGap(gap_start, gap_end) ==
    LET duration_h == DurationH(gap_start, gap_end)
    IN  [start |-> gap_start, end |-> gap_end, duration_h |-> duration_h,
         is_dst |-> IsDst(gap_start, duration_h)]

\* the record appended after the loop, closing the last run
FinalGap(gap_start, gap_end) ==
    LET duration_h == DurationH(gap_start, gap_end)
    IN  [start |-> gap_start, end |-> gap_end, duration_h |-> duration_h,
         is_dst |-> IsDst(gap_start, duration_h)]

\* a variant with a strict comparison
ExtendsRunStrict(ts, gap_end) == ts - gap_end < 1

\* ts - gap_end <= timedelta(hours=1)
ExtendsRun(ts, gap_end) == ts - gap_end <= 1

\* the body of the scan loop, on its three locals
ScanStep(st, ts) ==
    IF ExtendsRun(ts, st.gap_end)
    THEN [st EXCEPT !.gap_end = ts]
    ELSE [gap_start |-> ts, gap_end |-> ts,
          gaps |-> Append(st.gaps, LoopGap(st.gap_start, st.gap_end))]

\* for ts in fehlend[1:]: the passes over fehlend[i..j] in order, from the
\* locals st; the passes of the first half are completed (bound to h) before
\* those of the second half start from their result
RECURSIVE ScanLoop(_, _, _, _)
ScanLoop(fehlend, i, j, st) ==
    IF i > j THEN st
    ELSE IF i = j THEN ScanStep(st, fehlend[i])
    ELSE LET m == (i + j) \div 2
         IN  CHOOSE r \in {ScanLoop(fehlend, m + 1, j, h) :
                              h \in {ScanLoop(fehlend, i, m, st)}} : TRUE

\* a variant that does not close the last run after the loop
DetectGapsLoopOnly(fehlend) ==
    IF fehlend = <<>> THEN <<>>
    ELSE ScanLoop(fehlend, 2, Len(fehlend),
                  [gap_start |-> fehlend[1], gap_end |-> fehlend[1],
                   gaps |-> <<>>]).gaps

\* gaps = []; if fehlend: ... the scan and the closing of the last run
DetectGaps(fehlend) ==
    IF fehlend = <<>> THEN <<>>
    ELSE LET r == ScanLoop(fehlend, 2, Len(fehlend),
                           [gap_start |-> fehlend[1], gap_end |-> fehlend[1],
                            gaps |-> <<>>])
         IN  Append(r.gaps, FinalGap(r.gap_start, r.gap_end))

\* set(data['Datum'].unique())
Vorhanden(d) == {row.Datum : row \in d}

\* a variant whose range stops one hour before the last observation
FullRangeExclusive(d) ==
    DateRange(SetMin(Vorhanden(d)), SetMax(Vorhanden(d)) - 1)

\* a variant whose range runs one hour past the last observation
FullRangePastEnd(d) ==
    DateRange(SetMin(Vorhanden(d)), SetMax(Vorhanden(d)) + 1)

\* start = data['Datum'].min(); end = data['Datum'].max();
\* full_range = pd.date_range(start=start, end=end, freq='h')
FullRange(d) ==
    LET start == SetMin(Vorhanden(d))
        end   == SetMax(Vorhanden(d))
    IN  DateRange(start, end)

\* sorted(set(full_range) - vorhanden)
Fehlend(d) == Sorted(SeqToSet(FullRange(d)) \ Vorhanden(d))

\* a variant that does not restrict the rows to the year
JahrDataAllYears(d, jahr) == d

\* data[data['Jahr'] == jahr]
JahrData(d, jahr) == {row \in d : Jahr(row.Datum) = jahr}

\* a variant that counts rows, not distinct timestamps
ActualRows(jahr_data) == jahr_data

\* jahr_data['Datum'].unique()
Actual(jahr_data) == {row.Datum : row \in jahr_data}

RECURSIVE SumDuration(_)
SumDuration(gs) ==
    IF gs = <<>> THEN 0 ELSE Head(gs).duration_h + SumDuration(Tail(gs))

\* a variant that lets one-hour gaps count
CountsForYearFromOneHour(g, jahr) ==
    Jahr(g.start) = jahr /\ g.duration_h >= 1 /\ ~g.is_dst

\* a variant that attributes a gap to the year of the observation before it
CountsForYearOfPrecedingHour(g, jahr) ==
    Jahr(g.start - 1) = jahr /\ g.duration_h > 1 /\ ~g.is_dst

\* a variant that attributes a gap to the year in which it ends
CountsForYearOfEnd(g, jahr) ==
    Jahr(g.end) = jahr /\ g.duration_h > 1 /\ ~g.is_dst

\* the condition of the generator: g['start'].year == jahr and
\* g['duration_h'] > 1 and not g['is_dst']
CountsForYear(g, jahr) == Jahr(g.start) = jahr /\ g.duration_h > 1 /\ ~g.is_dst

\* sum(g['duration_h'] for g in gaps if ...)
GapHours(gaps, jahr) ==
    SumDuration(SelectSeq(gaps, LAMBDA g : CountsForYear(g, jahr)))

\* gap_hours / 24
GapDays(gap_hours) == [num |-> gap_hours, den |-> 24]

\* a variant that reports the share of missing slots
CompletenessOfMissing(len_actual, len_expected) ==
    IF len_expected > 0
    THEN [num |-> 100 * (len_expected - len_actual), den |-> len_expected]
    ELSE [num |-> 0, den |-> 1]

\* 100 * len(actual) / len(expected) if len(expected) > 0 else 0
Completeness(len_actual, len_expected) ==
    IF len_expected > 0
    THEN [num |-> 100 * len_actual, den |-> len_expected]
    ELSE [num |-> 0, den |-> 1]

\* one pass of the loop over the years: the record appended to yearly_stats
YearlyStat(d, gaps, jahr) ==
    LET jahr_data  == JahrData(d, jahr)
        jahr_start == SetMin(Vorhanden(jahr_data))
        jahr_end   == SetMax(Vorhanden(jahr_data))
        expected   == DateRange(jahr_start, jahr_end)
        actual     == Actual(jahr_data)
        gap_hours  == GapHours(gaps, jahr)
    IN  [jahr         |-> jahr,
         start        |-> jahr_start,
         end          |-> jahr_end,
         expected     |-> Len(expected),
         actual       |-> Cardinality(actual),
         missing      |-> Len(expected) - Cardinality(actual),
         completeness |-> Completeness(Cardinality(actual), Len(expected)),
         gap_hours    |-> gap_hours,
         gap_days     |-> GapDays(gap_hours)]

\* a variant that sorts the years descending
JahreDescending(d) ==
    LET asc == Sorted({Jahr(row.Datum) : row \in d})
    IN  [k \in 1..Len(asc) |-> asc[Len(asc) + 1 - k]]

\* sorted(data['Jahr'].unique())
Jahre(d) == Sorted({Jahr(row.Datum) : row \in d})

\* main: [g for g in gap_analysis['gaps'] if g['duration_h'] > 1 and not g['is_dst']]
significant_gaps(gaps) ==
    SelectSeq(gaps, LAMBDA g : g.duration_h > 1 /\ ~g.is_dst)

\* main: total_gap_hours = sum(g['duration_h'] for g in significant_gaps)
total_gap_hours(gaps) == SumDuration(significant_gaps(gaps))

\* the whole function: the returned dictionary
analyze_data_gaps(d) ==
    LET fehlend == Fehlend(d)
        gaps    == DetectGaps(fehlend)
        jahre   == Jahre(d)
    IN  [gaps          |-> gaps,
         yearly_stats  |-> [k \in 1..Len(jahre) |-> YearlyStat(d, gaps, jahre[k])],
         total_missing |-> Len(fehlend)]

----------------------------------------------------------------------------
(* The calendar-week chart of main: daily totals, the week-53 fold and the *)
(* weekly means.  A row of daily_totals_weekly is                          *)
(* [Jahr, Kalenderwoche, Datum_Tag, Anzahl]; a row of weekly_stats_kw is   *)
(* [Jahr, Kalenderwoche, Anzahl, Tage] with Anzahl the mean as a fraction. *)

RECURSIVE SumAnzahl(_)
SumAnzahl(rows) ==
    IF rows = {} THEN 0
    ELSE LET r == CHOOSE x \in rows : TRUE
         IN  r.Anzahl + SumAnzahl(rows \ {r})

RECURSIVE SumAnzahlSeq(_)
SumAnzahlSeq(rows) ==
    IF rows = <<>> THEN 0 ELSE Head(rows).Anzahl + SumAnzahlSeq(Tail(rows))

\* the order groupby gives its groups: ascending by the key columns
KeyBefore(a, b) ==
    \/ a[1] < b[1]
    \/ a[1] = b[1] /\ a[2] < b[2]
    \/ a[1] = b[1] /\ a[2] = b[2] /\ a[3] <= b[3]

RECURSIVE SortedKeys(_)
SortedKeys(K) ==
    IF K = {} THEN <<>>
    ELSE LET k == CHOOSE x \in K : \A y \in K : KeyBefore(x, y)
         IN  <<k>> \o SortedKeys(K \ {k})

\* filtered.groupby(['Jahr', 'Kalenderwoche', 'Datum_Tag'])['Anzahl'].sum()
\*         .reset_index()
DailyTotals(f) ==
    LET keys == SortedKeys({<<Jahr(row.Datum), Kalenderwoche(row.Datum),
                              Datum_Tag(row.Datum)>> : row \in f})
    IN  [i \in 1..Len(keys) |->
           [Jahr          |-> keys[i][1],
            Kalenderwoche |-> keys[i][2],
            Datum_Tag     |-> keys[i][3],
            Anzahl        |-> SumAnzahl({row \in f :
                                  Datum_Tag(row.Datum) = keys[i][3]})]]

\* daily_totals_weekly[daily_totals_weekly['Kalenderwoche'] == 53].copy()
Kw53Data(dtw) == SelectSeq(dtw, LAMBDA row : row.Kalenderwoche = 53)

\* a variant that moves the rows to the year after the ISO week-year of their
\* date, the year that holds the Thursday of the date's week
Kw53MovedIsoYear(kw53_data) ==
    [i \in 1..Len(kw53_data) |->
       LET day      == kw53_data[i].Datum_Tag
           thursday == day - ((day + 3) % 7) + 3
       IN  [kw53_data[i] EXCEPT !.Jahr = CivilFromDays(thursday).year + 1,
                                !.Kalenderwoche = 1]]

\* a variant that leaves the year as it is
Kw53MovedSameYear(kw53_data) ==
    [i \in 1..Len(kw53_data) |-> [kw53_data[i] EXCEPT !.Kalenderwoche = 1]]

\* kw53_data['Jahr'] = kw53_data['Jahr'] + 1; kw53_data['Kalenderwoche'] = 1
Kw53Moved(kw53_data) ==
    [i \in 1..Len(kw53_data) |->
       [kw53_data[i] EXCEPT !.Jahr = @ + 1, !.Kalenderwoche = 1]]

\* a variant that keeps week 53
DropOver53(dtw) == SelectSeq(dtw, LAMBDA row : row.Kalenderwoche <= 53)

\* daily_totals_weekly[daily_totals_weekly['Kalenderwoche'] <= 52]
DropOver52(dtw) == SelectSeq(dtw, LAMBDA row : row.Kalenderwoche <= 52)

\* a variant that keeps only the moved rows instead of appending them
FoldKw53MovedOnly(dtw) ==
    LET kw53_data == Kw53Data(dtw)
    IN  DropOver52(IF kw53_data # <<>> THEN Kw53Moved(kw53_data) ELSE dtw)

\* the fold: the copy of the week-53 rows is appended when it is not empty,
\* then the rows of a week above 52 are dropped
FoldKw53(dtw) ==
    LET kw53_data == Kw53Data(dtw)
    IN  DropOver52(IF kw53_data # <<>> THEN dtw \o Kw53Moved(kw53_data)
                   ELSE dtw)

\* the rows of one (Jahr, Kalenderwoche) group
GroupRows(dtw, jahr, kw) ==
    SelectSeq(dtw, LAMBDA row : row.Jahr = jahr /\ row.Kalenderwoche = kw)

\* Anzahl=('Anzahl', 'mean')
MeanAnzahl(rows) == [num |-> SumAnzahlSeq(rows), den |-> Len(rows)]

\* Tage=('Datum_Tag', 'nunique')
NUnique(rows) == Cardinality({rows[i].Datum_Tag : i \in 1..Len(rows)})

\* np.nan
NaN == [num |-> 0, den |-> 0]

IsNaN(x) == x.den = 0

\* a variant without the assignment for the first weeks of 2020
SuppressedByDaysOnly(jahr, kw, tage) == tage < 5

\* the two .loc assignments of np.nan
Suppressed(jahr, kw, tage) == tage < 5 \/ (jahr = 2020 /\ kw < 4)

\* daily_totals_weekly.groupby(['Jahr', 'Kalenderwoche']).agg(...)
\*         .reset_index(), then the two suppressions
WeeklyStats(dtw) ==
    LET keys == SortedKeys({<<dtw[i].Jahr, dtw[i].Kalenderwoche, 0>> :
                              i \in 1..Len(dtw)})
    IN  [k \in 1..Len(keys) |->
           LET rows == GroupRows(dtw, keys[k][1], keys[k][2])
               tage == NUnique(rows)
           IN  [Jahr          |-> keys[k][1],
                Kalenderwoche |-> keys[k][2],
                Anzahl        |-> IF Suppressed(keys[k][1], keys[k][2], tage)
                                  THEN NaN ELSE MeanAnzahl(rows),
                Tage          |-> tage]]

----------------------------------------------------------------------------
(* The datasets the feed can deliver: every set of rows over a few hourly  *)
(* slots around a date of interest, or over one midday slot on each of a   *)
(* few consecutive days around a turn of the year.                         *)

WindowHours == 7

\* the slots of a window in which the second direction reports as well
BothDirections == 2

WindowDays == 9

\* the count of a row: any non-negative integer; fixed per slot and direction
AnzahlOf(ts, richtung) ==
    1 + ((Datum_Tag(ts) + Stunde(ts)) % 3) + (IF richtung = "Hardbruecke" THEN 1 ELSE 0)

Row(ts, richtung) ==
    [Datum |-> ts, Richtung |-> richtung, Anzahl |-> AnzahlOf(ts, richtung)]

\* 28 March 2021 (the spring-forward night), the turn of the year 2020/21
\* and 1 April 2021
HourAnchors ==
    {Timestamp(2021, 3, 28, 1), Timestamp(2020, 12, 31, 21), Timestamp(2021, 4, 1, 0)}

HourlyRows(anchor) ==
    {Row(anchor + i, "Bucheggplatz") : i \in 0..(WindowHours - 1)}
    \cup {Row(anchor + i, "Hardbruecke") : i \in 0..(BothDirections - 1)}

\* from 27 December 2020 (week 52) through week 53 into week 1 of 2021
DailyRows ==
    {Row(Timestamp(2020, 12, 27, 12) + 24 * i, "Bucheggplatz") :
        i \in 0..(WindowDays - 1)}

\* from Monday 13 January 2020: week 3 and the start of week 4 of 2020
JanuaryRows ==
    {Row(Timestamp(2020, 1, 13, 12) + 24 * i, "Bucheggplatz") :
        i \in 0..(WindowDays - 1)}

\* every hour of 1 January 2020
FullDay == {Row(Timestamp(2020, 1, 1, h), "Bucheggplatz") : h \in 0..23}

\* the last hours of 2020 and the first of 2022, for a selection of years
\* of which 2021 could not be loaded
SkippedYearRows ==
    {Row(ts, "Bucheggplatz") :
        ts \in {Timestamp(2020, 12, 31, 21), Timestamp(2020, 12, 31, 23),
                Timestamp(2022, 1, 1, 0), Timestamp(2022, 1, 1, 3)}}

Datasets ==
    (UNION {SUBSET HourlyRows(a) : a \in HourAnchors})
    \cup SUBSET DailyRows \cup SUBSET JanuaryRows \cup {FullDay}
    \cup SUBSET SkippedYearRows

----------------------------------------------------------------------------
(* main                                                                    *)

NoAnalysis == [gaps |-> <<>>, yearly_stats |-> <<>>, total_missing |-> 0]

Init ==
    /\ pc = "start"
    /\ data = {}
    /\ filtered = {}
    /\ daily_totals_weekly = <<>>
    /\ weekly_stats_kw = <<>>
    /\ gap_analysis = NoAnalysis

\* if not selected_jahre: warning, return
NoYearSelected ==
    /\ pc = "start"
    /\ pc' = "returned"
    /\ UNCHANGED <<data, filtered, daily_totals_weekly, weekly_stats_kw, gap_analysis>>

\* data = load_data_for_years(...): the rows of the years that could be
\* loaded; the empty set stands for None (no non-empty frame was loaded)
LoadData ==
    /\ pc = "start"
    /\ \E d \in Datasets : data' = d
    /\ pc' = "loaded"
    /\ UNCHANGED <<filtered, daily_totals_weekly, weekly_stats_kw, gap_analysis>>

\* if data is None or data.empty: error, return
NoData ==
    /\ pc = "loaded"
    /\ data = {}
    /\ pc' = "returned"
    /\ UNCHANGED <<data, filtered, daily_totals_weekly, weekly_stats_kw, gap_analysis>>

\* the weekday selections of the sidebar that the model draws: none, Monday
\* to Friday, all seven (the default)
WeekdaySelections == {{}, 0..4, 0..6}

\* data[data['Richtung'].isin(selected_richtungen) & ... &
\*      data['Wochentag'].isin(selected_wochentag_ids)]; the class filter is
\* left at its default, which selects every row
FilterRows(d, selected_richtungen, selected_wochentag_ids) ==
    {row \in d : /\ row.Richtung \in selected_richtungen
                 /\ Wochentag(row.Datum) \in selected_wochentag_ids}

\* a variant that goes on when the filters leave no row
FilterDataUnchecked ==
    /\ pc = "loaded"
    /\ data # {}
    /\ \E selected_richtungen \in SUBSET {row.Richtung : row \in data},
          selected_wochentag_ids \in WeekdaySelections :
         IF selected_richtungen = {} \/ selected_wochentag_ids = {}
         THEN /\ pc' = "returned"
              /\ filtered' = filtered
         ELSE /\ filtered' = FilterRows(data, selected_richtungen, selected_wochentag_ids)
              /\ pc' = "filtered"
    /\ UNCHANGED <<data, daily_totals_weekly, weekly_stats_kw, gap_analysis>>

\* the sidebar filters: an empty selection returns with a warning, and so
\* does an empty result (if filtered.empty)
FilterData ==
    /\ pc = "loaded"
    /\ data # {}
    /\ \E selected_richtungen \in SUBSET {row.Richtung : row \in data},
          selected_wochentag_ids \in WeekdaySelections :
         IF selected_richtungen = {} \/ selected_wochentag_ids = {}
         THEN /\ pc' = "returned"
              /\ filtered' = filtered
         ELSE /\ filtered' = FilterRows(data, selected_richtungen, selected_wochentag_ids)
              /\ pc' = IF filtered' = {} THEN "returned" ELSE "filtered"
    /\ UNCHANGED <<data, daily_totals_weekly, weekly_stats_kw, gap_analysis>>

\* daily_totals_weekly = filtered.groupby([...])['Anzahl'].sum().reset_index()
GroupDaily ==
    /\ pc = "filtered"
    /\ daily_totals_weekly' = DailyTotals(filtered)
    /\ pc' = "grouped"
    /\ UNCHANGED <<data, filtered, weekly_stats_kw, gap_analysis>>

\* the week-53 fold and the drop of the weeks above 52
FoldWeek53 ==
    /\ pc = "grouped"
    /\ daily_totals_weekly' = FoldKw53(daily_totals_weekly)
    /\ pc' = "folded"
    /\ UNCHANGED <<data, filtered, weekly_stats_kw, gap_analysis>>

\* weekly_stats_kw = ...agg(...).reset_index() and the suppressions
AggregateWeekly ==
    /\ pc = "folded"
    /\ weekly_stats_kw' = WeeklyStats(daily_totals_weekly)
    /\ pc' = "weekly"
    /\ UNCHANGED <<data, filtered, daily_totals_weekly, gap_analysis>>

\* Zeile 5: if len(selected_jahre) > 1: gap_analysis = analyze_data_gaps(data).
\* Rows of more than one year were loaded only if several years are selected.
YearComparison ==
    /\ pc = "weekly"
    /\ \E several_years \in BOOLEAN :
         /\ Len(Jahre(data)) > 1 => several_years
         /\ gap_analysis' = IF several_years THEN analyze_data_gaps(data)
                            ELSE gap_analysis
    /\ pc' = "compared"
    /\ UNCHANGED <<data, filtered, daily_totals_weekly, weekly_stats_kw>>

\* Zeile 6: gap_analysis = analyze_data_gaps(data)
DataQuality ==
    /\ pc = "compared"
    /\ gap_analysis' = analyze_data_gaps(data)
    /\ pc' = "done"
    /\ UNCHANGED <<data, filtered, daily_totals_weekly, weekly_stats_kw>>

Next ==
    \/ NoYearSelected
    \/ LoadData
    \/ NoData
    \/ FilterData
    \/ GroupDaily
    \/ FoldWeek53
    \/ AggregateWeekly
    \/ YearComparison
    \/ DataQuality

Spec == Init /\ [][Next]_vars

----------------------------------------------------------------------------
(* Properties of analyze_data_gaps, read off the result held by main once  *)
(* the data-quality section has run.                                       *)

Analysed == pc = "done"

Gaps == gap_analysis.gaps

Stats == gap_analysis.yearly_stats

\* the hourly slots between the first and the last observation that were
\* not observed
MissingSlots ==
    {t \in SetMin(Vorhanden(data))..SetMax(Vorhanden(data)) : t \notin Vorhanden(data)}

GapSlots(g) == g.start..g.end

\* C1: the gaps cover exactly the missing hourly slots between the first and
\* the last observation, and every missing slot lies in exactly one gap.
C1_GapsCoverMissing ==
    Analysed =>
        /\ UNION {GapSlots(Gaps[i]) : i \in 1..Len(Gaps)} = MissingSlots
        /\ \A t \in MissingSlots :
             Cardinality({i \in 1..Len(Gaps) : t \in GapSlots(Gaps[i])}) = 1

\* two separate gaps, one of them longer than an hour
C1_Witness ==
    /\ Analysed
    /\ Len(Gaps) = 2
    /\ Gaps[1].end = Gaps[1].start + 1
    /\ Cardinality(MissingSlots) = 3

\* C2: gaps are maximal runs: ascending by start, the next gap starts more
\* than one hour after the previous one ends, and missing slots that form one
\* contiguous run give exactly one gap from the run's first to its last hour.
C2_GapsAreMaximalRuns ==
    Analysed =>
        /\ \A i \in 1..(Len(Gaps) - 1) :
             /\ Gaps[i].start < Gaps[i + 1].start
             /\ Gaps[i + 1].start - Gaps[i].end > 1
        /\ (/\ MissingSlots # {}
            /\ MissingSlots = SetMin(MissingSlots)..SetMax(MissingSlots))
           => /\ Len(Gaps) = 1
              /\ Gaps[1].start = SetMin(MissingSlots)
              /\ Gaps[1].end = SetMax(MissingSlots)

\* one run of three missing hours inside otherwise complete data
C2_Witness ==
    /\ Analysed
    /\ Cardinality(MissingSlots) = 3
    /\ MissingSlots = SetMin(MissingSlots)..SetMax(MissingSlots)
    /\ Len(Gaps) = 1

\* C3: a gap is flagged is_dst exactly when it lasts at most one hour and
\* starts in March at hour 2, for the gaps closed in the loop and for the last.
C3_DstFlagPrecise ==
    Analysed =>
        \A i \in 1..Len(Gaps) :
            Gaps[i].is_dst <=>
                /\ Gaps[i].duration_h <= 1
                /\ CivilFromDays(Gaps[i].start \div 24).month = 3
                /\ Gaps[i].start % 24 = 2

\* a one-hour gap at 02:00 in March closed inside the loop, and a last gap
\* closed after the loop that is not flagged
C3_Witness ==
    /\ Analysed
    /\ Len(Gaps) = 2
    /\ Gaps[1].is_dst
    /\ ~Gaps[2].is_dst

\* C4: the completeness of every yearly record lies between 0 and 100.
C4_CompletenessBounded ==
    Analysed =>
        \A k \in 1..Len(Stats) :
            /\ Stats[k].completeness.den > 0
            /\ 0 <= Stats[k].completeness.num
            /\ Stats[k].completeness.num <= 100 * Stats[k].completeness.den

\* a year with missing hours whose observed hours carry more rows than there
\* are slots in its range
C4_Witness ==
    /\ Analysed
    /\ \E k \in 1..Len(Stats) :
         /\ Stats[k].missing > 0
         /\ Cardinality(JahrData(data, Stats[k].jahr)) > Stats[k].expected

\* C8: exactly one yearly record for every calendar year that occurs in the
\* rows, none for another year, in strictly ascending order of year.
C8_OneRecordPerYear ==
    Analysed =>
        /\ {Stats[k].jahr : k \in 1..Len(Stats)} =
               {CivilFromDays(row.Datum \div 24).year : row \in data}
        /\ \A k \in 1..(Len(Stats) - 1) : Stats[k].jahr < Stats[k + 1].jahr

\* rows of two calendar years
C8_Witness ==
    /\ Analysed
    /\ Len(Stats) = 2
    /\ Stats[1].jahr = 2020
    /\ Stats[2].jahr = 2021

\* C9: completeness is 100 * actual / expected when expected > 0 and 0 when
\* expected is 0, and no division by zero takes place.
C9_CompletenessFormula ==
    Analysed =>
        \A k \in 1..Len(Stats) :
            LET s == Stats[k]
            IN  /\ s.completeness.den # 0
                /\ s.expected > 0 =>
                     s.completeness.num * s.expected =
                         100 * s.actual * s.completeness.den
                /\ s.expected = 0 => s.completeness.num = 0

\* a year observed in part: 3 of 5 expected hours
C9_Witness ==
    /\ Analysed
    /\ \E k \in 1..Len(Stats) : Stats[k].expected = 5 /\ Stats[k].actual = 3

\* the gaps that count for a year: started in it, longer than an hour, not
\* flagged is_dst
SignificantIn(jahr) ==
    {i \in 1..Len(Gaps) :
        /\ CivilFromDays(Gaps[i].start \div 24).year = jahr
        /\ Gaps[i].duration_h > 1
        /\ ~Gaps[i].is_dst}

RECURSIVE SumOver(_)
SumOver(I) ==
    IF I = {} THEN 0
    ELSE LET i == CHOOSE x \in I : TRUE
         IN  Gaps[i].duration_h + SumOver(I \ {i})

\* C10: gap_hours of a year is the sum of the durations of exactly the gaps
\* that start in the year, last more than one hour and are not flagged
\* is_dst; gap_days is gap_hours / 24.
C10_GapHoursOfYear ==
    Analysed =>
        \A k \in 1..Len(Stats) :
            /\ Stats[k].gap_hours = SumOver(SignificantIn(Stats[k].jahr))
            /\ Stats[k].gap_days.den # 0
            /\ Stats[k].gap_days.num * 24 = Stats[k].gap_hours * Stats[k].gap_days.den

\* a year with a two-hour gap that counts and an unflagged one-hour gap that
\* does not
C10_Witness ==
    /\ Analysed
    /\ \E k \in 1..Len(Stats) :
         /\ Stats[k].gap_hours = 2
         /\ \E i \in 1..Len(Gaps) :
              /\ Jahr(Gaps[i].start) = Stats[k].jahr
              /\ Gaps[i].duration_h = 1
              /\ ~Gaps[i].is_dst

----------------------------------------------------------------------------
(* Properties of the calendar-week fold of main.                           *)

\* the rows of filtered whose date has calendar year jahr and ISO week kw
FilteredIn(jahr, kw) ==
    {row \in filtered : Jahr(row.Datum) = jahr /\ Kalenderwoche(row.Datum) = kw}

DaysOf(rows) == {Datum_Tag(row.Datum) : row \in rows}

\* the years that have daily totals in week 53 before the fold
Week53Years == {Jahr(row.Datum) : row \in {r \in filtered : Kalenderwoche(r.Datum) = 53}}

\* C5: after the fold no daily total and no weekly aggregate has a calendar
\* week above 52: every week number is in 1..52.
C5_NoWeekAbove52 ==
    /\ pc \in {"folded", "weekly", "compared", "done"} =>
         \A i \in 1..Len(daily_totals_weekly) :
             daily_totals_weekly[i].Kalenderwoche \in 1..52
    /\ pc \in {"weekly", "compared", "done"} =>
         \A k \in 1..Len(weekly_stats_kw) :
             weekly_stats_kw[k].Kalenderwoche \in 1..52

\* weekly aggregates of a dataset that had daily totals in week 53
C5_Witness ==
    /\ pc = "weekly"
    /\ Week53Years # {}
    /\ Len(weekly_stats_kw) >= 2

\* C6: for every year Y with daily totals in week 53, the group (Y+1, 1)
\* after the fold holds those daily totals and the ones it had before: its
\* day count and sum are the two day counts and sums added, and its weekly
\* mean is the mean over the merged days.
C6_Week53MergedIntoNextYear ==
    pc \in {"weekly", "compared", "done"} =>
        \A y \in Week53Years :
            LET src    == FilteredIn(y, 53)
                pre    == FilteredIn(y + 1, 1)
                merged == GroupRows(daily_totals_weekly, y + 1, 1)
                days   == Cardinality(DaysOf(src)) + Cardinality(DaysOf(pre))
                total  == SumAnzahl(src) + SumAnzahl(pre)
                stat   == {k \in 1..Len(weekly_stats_kw) :
                             /\ weekly_stats_kw[k].Jahr = y + 1
                             /\ weekly_stats_kw[k].Kalenderwoche = 1}
            IN  /\ Len(merged) = days
                /\ NUnique(merged) = days
                /\ {merged[i].Datum_Tag : i \in 1..Len(merged)} =
                       DaysOf(src) \cup DaysOf(pre)
                /\ SumAnzahlSeq(merged) = total
                /\ Cardinality(stat) = 1
                /\ \A k \in stat :
                     /\ weekly_stats_kw[k].Tage = days
                     /\ ~IsNaN(weekly_stats_kw[k].Anzahl) =>
                          weekly_stats_kw[k].Anzahl.num * days =
                              total * weekly_stats_kw[k].Anzahl.den

\* week 53 of 2020 merged with days week 1 of 2021 already had, the mean of
\* the merged group not suppressed
C6_Witness ==
    /\ pc = "weekly"
    /\ FilteredIn(2020, 53) # {}
    /\ FilteredIn(2021, 1) # {}
    /\ \E k \in 1..Len(weekly_stats_kw) :
         /\ weekly_stats_kw[k].Jahr = 2021
         /\ weekly_stats_kw[k].Kalenderwoche = 1
         /\ ~IsNaN(weekly_stats_kw[k].Anzahl)

\* the (year, week) groups of a table of daily totals
GroupKeys(dtw) == {<<dtw[i].Jahr, dtw[i].Kalenderwoche>> : i \in 1..Len(dtw)}

\* (jahr, kw) is week 1 of the year after a year with week-53 rows in dtw
FoldTarget(dtw, jahr, kw) ==
    /\ kw = 1
    /\ \E i \in 1..Len(dtw) : dtw[i].Jahr = jahr - 1 /\ dtw[i].Kalenderwoche = 53

\* C7: the fold leaves every group of a week in 1..52 that is not the fold
\* target of a week-53 year as it was: the same daily totals, sum and count.
C7_FoldLeavesOtherGroups ==
    [][(pc = "grouped" /\ pc' = "folded") =>
         \A key \in GroupKeys(daily_totals_weekly) \cup GroupKeys(daily_totals_weekly') :
             (key[2] \in 1..52 /\ ~FoldTarget(daily_totals_weekly, key[1], key[2]))
             => GroupRows(daily_totals_weekly', key[1], key[2]) =
                    GroupRows(daily_totals_weekly, key[1], key[2])]_vars

\* a fold that moved week-53 rows beside a week-52 group of the same data
C7_Witness ==
    /\ pc = "folded"
    /\ Week53Years # {}
    /\ \E i \in 1..Len(daily_totals_weekly) : daily_totals_weekly[i].Kalenderwoche = 52

----------------------------------------------------------------------------
(* Further properties of analyze_data_gaps.                                *)

\* C14: every gap has duration_h = (end - start in hours) + 1, start <= end
\* and duration_h >= 1; a missing slot whose two neighbours are observed gives
\* a gap with start = end and duration exactly 1.
C14_DurationOfGap ==
    Analysed =>
        /\ \A i \in 1..Len(Gaps) :
             /\ Gaps[i].duration_h = Gaps[i].end - Gaps[i].start + 1
             /\ Gaps[i].start <= Gaps[i].end
             /\ Gaps[i].duration_h >= 1
        /\ \A t \in MissingSlots :
             (t - 1 \in Vorhanden(data) /\ t + 1 \in Vorhanden(data)) =>
                 \E i \in 1..Len(Gaps) :
                     /\ Gaps[i].start = t
                     /\ Gaps[i].end = t
                     /\ Gaps[i].duration_h = 1

\* an isolated missing slot and a run of two missing slots in one result
C14_Witness ==
    /\ Analysed
    /\ \E i, j \in 1..Len(Gaps) :
         /\ Gaps[i].start = Gaps[i].end
         /\ Gaps[j].end = Gaps[j].start + 1

\* C17: in every yearly record start and end are the first and the last
\* observed timestamp of the year's rows, expected is the number of hourly
\* slots from start to end, actual the number of distinct observed timestamps
\* of the year, and missing = expected - actual >= 0.
C17_YearlyRecordFields ==
    Analysed =>
        \A k \in 1..Len(Stats) :
            LET s  == Stats[k]
                ts == {row.Datum : row \in
                         {r \in data : CivilFromDays(r.Datum \div 24).year = s.jahr}}
            IN  /\ s.start \in ts
                /\ s.end \in ts
                /\ \A t \in ts : s.start <= t /\ t <= s.end
                /\ s.expected = Cardinality(s.start..s.end)
                /\ s.actual = Cardinality(ts)
                /\ s.missing = s.expected - s.actual
                /\ s.missing >= 0

\* two years, one of them with a missing hour and with more rows than
\* distinct timestamps
C17_Witness ==
    /\ Analysed
    /\ Len(Stats) = 2
    /\ \E k \in 1..Len(Stats) :
         /\ Stats[k].missing > 0
         /\ Cardinality(JahrData(data, Stats[k].jahr)) > Stats[k].actual

\* the gaps that lie inside the range of a yearly record
InsideYear(s) == {i \in 1..Len(Gaps) : s.start < Gaps[i].start /\ Gaps[i].end < s.end}

\* C18: missing and gap_hours are asymmetric: a one-hour gap inside a year's
\* range, flagged or not, adds 1 to missing and nothing to gap_hours; a gap of
\* k > 1 hours inside the range adds k to both.  So missing is the sum over
\* all gaps inside the range, and gap_hours the sum over those of them that
\* last more than an hour plus the counted gaps that start in the year
\* outside the range.
C18_MissingVersusGapHours ==
    Analysed =>
        \A k \in 1..Len(Stats) :
            LET s      == Stats[k]
                inside == InsideYear(s)
                long   == {i \in inside : Gaps[i].duration_h > 1}
            IN  /\ s.missing = SumOver(inside)
                /\ s.gap_hours = SumOver(long) + SumOver(SignificantIn(s.jahr) \ inside)
                /\ long \subseteq SignificantIn(s.jahr)
                /\ \A i \in inside \ long : i \notin SignificantIn(s.jahr)

\* a year with a flagged one-hour gap and a two-hour gap inside its range:
\* three missing hours, two gap hours
C18_Witness ==
    /\ Analysed
    /\ \E k \in 1..Len(Stats) :
         /\ Stats[k].missing = 3
         /\ Stats[k].gap_hours = 2
         /\ \E i \in InsideYear(Stats[k]) : Gaps[i].duration_h = 1 /\ Gaps[i].is_dst

\* C19: total_missing is the sum of duration_h over all returned gaps.
C19_TotalMissingIsSumOfDurations ==
    Analysed => gap_analysis.total_missing = SumOver(1..Len(Gaps))

\* several gaps, one flagged and one longer than an hour
C19_Witness ==
    /\ Analysed
    /\ Len(Gaps) >= 2
    /\ \E i \in 1..Len(Gaps) : Gaps[i].is_dst
    /\ \E i \in 1..Len(Gaps) : Gaps[i].duration_h > 1
    /\ gap_analysis.total_missing >= 3

\* C20: every gap lies strictly inside the observed range: it starts after
\* the first and ends before the last observed timestamp.
C20_GapsInsideObservedRange ==
    Analysed =>
        \A i \in 1..Len(Gaps) :
            /\ \E row \in data : row.Datum < Gaps[i].start
            /\ \E row \in data : Gaps[i].end < row.Datum

\* gaps that reach the second and the second-to-last slot of the range
C20_Witness ==
    /\ Analysed
    /\ Len(Gaps) >= 2
    /\ Gaps[1].start = SetMin(Vorhanden(data)) + 1
    /\ Gaps[Len(Gaps)].end = SetMax(Vorhanden(data)) - 1

\* C12: when every hour between the first and the last observation is
\* observed, the gap list is empty, total_missing is 0 and every yearly record
\* has expected = actual, missing = 0 and completeness exactly 100; one fully
\* observed day gives expected = 24 and actual = 24.
C12_CompleteDataHasNoGaps ==
    (Analysed /\ MissingSlots = {}) =>
        /\ Gaps = <<>>
        /\ gap_analysis.total_missing = 0
        /\ \A k \in 1..Len(Stats) :
             /\ Stats[k].expected = Stats[k].actual
             /\ Stats[k].missing = 0
             /\ Stats[k].completeness.den > 0
             /\ Stats[k].completeness.num = 100 * Stats[k].completeness.den
        /\ data = FullDay =>
             /\ Len(Stats) = 1
             /\ Stats[1].expected = 24
             /\ Stats[1].actual = 24

\* the analysis of the fully observed 1 January 2020
C12_Witness ==
    /\ Analysed
    /\ data = FullDay
    /\ Len(Stats) = 1
    /\ Stats[1].jahr = 2020

\* C15: the expected sequence starts at the first and ends at the last
\* observed timestamp, and each element is exactly one hour after the one
\* before it (so it is strictly increasing and has no duplicates).
C15_FullRangeIsHourly ==
    Analysed =>
        LET full_range == FullRange(data)
        IN  /\ Len(full_range) >= 1
            /\ \A row \in data : full_range[1] <= row.Datum
            /\ \E row \in data : full_range[1] = row.Datum
            /\ \A row \in data : row.Datum <= full_range[Len(full_range)]
            /\ \E row \in data : full_range[Len(full_range)] = row.Datum
            /\ \A i \in 1..(Len(full_range) - 1) :
                 full_range[i + 1] = full_range[i] + 1

\* a range of several hours with unobserved slots in it
C15_Witness ==
    /\ Analysed
    /\ Len(FullRange(data)) >= 4
    /\ Cardinality(Vorhanden(data)) = 2

----------------------------------------------------------------------------
(* Further properties of the weekly means.                                 *)

\* C13: the weekly mean of a group is NaN exactly when fewer than 5 distinct
\* days contributed to it or the group is a week before week 4 of 2020;
\* otherwise it is the mean of the group's daily totals.
C13_WeeklyMeanSuppression ==
    pc \in {"weekly", "compared", "done"} =>
        \A k \in 1..Len(weekly_stats_kw) :
            LET w    == weekly_stats_kw[k]
                rows == GroupRows(daily_totals_weekly, w.Jahr, w.Kalenderwoche)
                days == {rows[i].Datum_Tag : i \in 1..Len(rows)}
            IN  /\ IsNaN(w.Anzahl) <=>
                     \/ Cardinality(days) < 5
                     \/ (w.Jahr = 2020 /\ w.Kalenderwoche < 4)
                /\ ~IsNaN(w.Anzahl) =>
                     w.Anzahl.num * Len(rows) = SumAnzahlSeq(rows) * w.Anzahl.den

\* week 3 of 2020 with at least five days, suppressed all the same
C13_Witness ==
    /\ pc = "weekly"
    /\ \E k \in 1..Len(weekly_stats_kw) :
         /\ weekly_stats_kw[k].Jahr = 2020
         /\ weekly_stats_kw[k].Kalenderwoche = 3
         /\ weekly_stats_kw[k].Tage >= 5
         /\ IsNaN(weekly_stats_kw[k].Anzahl)

----------------------------------------------------------------------------
(* The order of main.                                                      *)

\* C16: analyze_data_gaps is called only on a loaded dataset that is not
\* empty and after the filtered dataset was found not empty; a run that
\* loaded no data returns, and a run that returns has never called it.
C16_AnalysisOnlyOnCheckedData ==
    [][/\ (pc' \in {"compared", "done"} \/ gap_analysis' # gap_analysis) =>
            /\ data # {}
            /\ filtered # {}
            /\ pc \in {"weekly", "compared"}
       /\ (pc = "loaded" /\ data = {}) => pc' = "returned"
       /\ pc' = "returned" =>
            /\ gap_analysis' = NoAnalysis
            /\ pc \in {"start", "loaded"}]_vars

\* a run that returned because the filters left no row of a loaded dataset
C16_Witness ==
    /\ pc = "returned"
    /\ data # {}
    /\ filtered = {}
    /\ \E row \in data : Wochentag(row.Datum) \notin 0..4
    /\ \A row \in data : Wochentag(row.Datum) \notin 0..4

----------------------------------------------------------------------------
(* Gaps at the turn of a year.                                             *)

\* the counted gaps of a yearly record that start after its last observation
Trailing(s) == {i \in SignificantIn(s.jahr) : Gaps[i].start > s.end}

\* C21: gap_hours of a year is not bounded by its missing: a counted gap that
\* starts after the year's last observation adds its whole duration to the
\* year's gap_hours, also when it runs into the following year, and none of
\* its slots to missing, which counts the slots between the year's first and
\* last observation only.
C21_TrailingGapNotInMissing ==
    Analysed =>
        \A k \in 1..Len(Stats) :
            LET s == Stats[k]
            IN  /\ s.missing = Cardinality(MissingSlots \cap (s.start..s.end))
                /\ \A i \in Trailing(s) :
                     /\ GapSlots(Gaps[i]) \cap (s.start..s.end) = {}
                     /\ s.gap_hours =
                            Gaps[i].duration_h + SumOver(SignificantIn(s.jahr) \ {i})
                     /\ s.gap_hours >= Gaps[i].duration_h

\* a year whose gap_hours exceed its missing, by a gap that starts after its
\* last observation and ends in the following year
C21_Witness ==
    /\ Analysed
    /\ \E k \in 1..Len(Stats) :
         /\ Stats[k].gap_hours > Stats[k].missing
         /\ \E i \in Trailing(Stats[k]) : Jahr(Gaps[i].end) = Stats[k].jahr + 1

\* the sum of missing over the first k yearly records
RECURSIVE SumMissing(_)
SumMissing(k) == IF k = 0 THEN 0 ELSE Stats[k].missing + SumMissing(k - 1)

\* the missing slots after one year's last observation and before the first
\* observation of the next year that has rows
BetweenYears ==
    {t \in MissingSlots :
        \E k \in 1..(Len(Stats) - 1) : Stats[k].end < t /\ t < Stats[k + 1].start}

\* C22: the yearly missing counts add up to at most total_missing, and what
\* lacks is exactly the number of missing slots between the last observation
\* of one year and the first observation of the next year with rows.
C22_YearlyMissingVersusTotal ==
    Analysed =>
        /\ SumMissing(Len(Stats)) <= gap_analysis.total_missing
        /\ gap_analysis.total_missing - SumMissing(Len(Stats)) = Cardinality(BetweenYears)

\* two years with missing slots inside a year's range and between the years
C22_Witness ==
    /\ Analysed
    /\ Len(Stats) = 2
    /\ SumMissing(Len(Stats)) > 0
    /\ BetweenYears # {}

\* the sum of gap_hours over the first k yearly records
RECURSIVE SumGapHours(_)
SumGapHours(k) == IF k = 0 THEN 0 ELSE Stats[k].gap_hours + SumGapHours(k - 1)

\* the gaps longer than an hour and not flagged is_dst that start in a year
\* without observed rows
Orphans ==
    {i \in 1..Len(Gaps) :
        /\ Gaps[i].duration_h > 1
        /\ ~Gaps[i].is_dst
        /\ \A k \in 1..Len(Stats) : Stats[k].jahr # Jahr(Gaps[i].start)}

\* C23: a gap longer than an hour, not flagged is_dst, that starts in a year
\* without observed rows is counted in no yearly record: the yearly gap_hours
\* add up to the total of significant gap hours that main computes from the
\* same gap list less the durations of these gaps, so to less than that total
\* whenever there is such a gap.
C23_GapOfAbsentYearUncounted ==
    Analysed =>
        /\ SumGapHours(Len(Stats)) = total_gap_hours(Gaps) - SumOver(Orphans)
        /\ SumGapHours(Len(Stats)) <= total_gap_hours(Gaps)
        /\ Orphans # {} => SumGapHours(Len(Stats)) < total_gap_hours(Gaps)

\* observations in 2020 and 2022, none in 2021: the gap from 1 January 2021
\* is in no yearly record, a later gap of 2022 is
C23_Witness ==
    /\ Analysed
    /\ Len(Stats) = 2
    /\ \E i \in Orphans : Gaps[i].duration_h >= 8760
    /\ SumGapHours(Len(Stats)) > 0
    /\ SumGapHours(Len(Stats)) < total_gap_hours(Gaps)

----------------------------------------------------------------------------
(* The year of a folded week.                                              *)

\* the rows of filtered dated in January whose ISO week is 53
JanuaryWeek53 ==
    {row \in filtered : Monat(row.Datum) = 1 /\ Kalenderwoche(row.Datum) = 53}

\* C24: the fold adds one to the calendar year of the date, not to an ISO
\* week-year: the daily total of a date in January of year Y with ISO week 53
\* is after the fold in (Y + 1, week 1), with the sum of that day, and in no
\* other group, so not in (Y, week 1).
C24_FoldUsesCalendarYear ==
    pc \in {"folded", "weekly", "compared", "done"} =>
        \A row \in JanuaryWeek53 :
            LET day  == Datum_Tag(row.Datum)
                Y    == Jahr(row.Datum)
                rows == {i \in 1..Len(daily_totals_weekly) :
                            daily_totals_weekly[i].Datum_Tag = day}
            IN  /\ Cardinality(rows) = 1
                /\ \A i \in rows :
                     /\ daily_totals_weekly[i].Jahr = Y + 1
                     /\ daily_totals_weekly[i].Kalenderwoche = 1
                     /\ daily_totals_weekly[i].Anzahl =
                            SumAnzahl({r \in filtered : Datum_Tag(r.Datum) = day})
                /\ \A i \in 1..Len(GroupRows(daily_totals_weekly, Y, 1)) :
                     GroupRows(daily_totals_weekly, Y, 1)[i].Datum_Tag # day

\* 1 to 3 January 2021 lie in ISO week 53: folded while week 1 of 2021 has a
\* day of its own
C24_Witness ==
    /\ pc = "folded"
    /\ JanuaryWeek53 # {}
    /\ FilteredIn(2021, 1) # {}
    /\ GroupRows(daily_totals_weekly, 2022, 1) # <<>>
    /\ GroupRows(daily_totals_weekly, 2021, 1) # <<>>

====
